---- MODULE Spec2Model ----
(***************************************************************************)
(* Model of the Auto-Fill Application Forms script (src/model.py).        *)
(*                                                                         *)
(* One run of the script body that follows a click on "Generate Forms":   *)
(* input check, Excel load, temporary directory, archive extraction, the  *)
(* per-row loop (context, three photo slots, render, save), bundling and  *)
(* the download button.  Text (column names, keys, paths, file names) is  *)
(* modelled as sequences of one-character strings so that strip(),        *)
(* lower(), startswith(), os.path.join() and sorted() are computed.       *)
(***************************************************************************)
EXTENDS Integers, Sequences, FiniteSets, TLC

\* Largest number of data rows of an uploaded spreadsheet.
MaxRows == 2

----------------------------------------------------------------------------
\* Text helpers

UPPER == <<"A","B","C","D","E","F","G","H","I","J","K","L","M",
           "N","O","P","Q","R","S","T","U","V","W","X","Y","Z">>
LOWER == <<"a","b","c","d","e","f","g","h","i","j","k","l","m",
           "n","o","p","q","r","s","t","u","v","w","x","y","z">>
DIGIT == <<"0","1","2","3","4","5","6","7","8","9">>

\* The characters of the generated file names, in code point order.
ASCII == <<".">> \o DIGIT \o <<"_">> \o LOWER

Range(s) == {s[i] : i \in DOMAIN s}

\* Body(x) for x = v, with v evaluated once
Let(v, Body(_)) == CHOOSE r \in {Body(x) : x \in {v}} : TRUE

\* str.lower() on one character
LowerChar(c) ==
  IF \E i \in DOMAIN UPPER : UPPER[i] = c
    THEN LOWER[CHOOSE i \in DOMAIN UPPER : UPPER[i] = c]
    ELSE c

\* str.lower()
Lower(s) == [i \in DOMAIN s |-> LowerChar(s[i])]

\* str.startswith(prefix)
StartsWith(s, prefix) ==
  /\ Len(s) >= Len(prefix)
  /\ SubSeq(s, 1, Len(prefix)) = prefix

IsSpace(c) == c \in {" ", "\t", "\n"}

\* str.strip(): drop leading and trailing whitespace
Strip(s) ==
  LET keep == {i \in DOMAIN s : ~IsSpace(s[i])}
  IN  IF keep = {} THEN <<>>
      ELSE SubSeq(s, CHOOSE i \in keep : \A j \in keep : i <= j,
                     CHOOSE i \in keep : \A j \in keep : i >= j)

\* str(n) for a natural number n
RECURSIVE IntStr(_)
IntStr(n) ==
  IF n < 10 THEN <<DIGIT[n + 1]>>
  ELSE IntStr(n \div 10) \o <<DIGIT[(n % 10) + 1]>>

Ord(c) == CHOOSE i \in DOMAIN ASCII : ASCII[i] = c

\* s < t for Python strings (lexicographic by code point)
RECURSIVE StrLess(_, _)
StrLess(s, t) ==
  IF t = <<>> THEN FALSE
  ELSE IF s = <<>> THEN TRUE
  ELSE IF Head(s) = Head(t) THEN StrLess(Tail(s), Tail(t))
  ELSE Ord(Head(s)) < Ord(Head(t))

\* sorted(names) for a set of distinct strings: each name stands after the
\* names that are smaller
SortedNames(names) ==
  Let(names, LAMBDA S :
    [ i \in 1..Cardinality(S) |->
        CHOOSE x \in S : Cardinality({y \in S : StrLess(y, x)}) = i - 1 ])

----------------------------------------------------------------------------
\* Literals

APPLICATION_NUMBER ==
  <<"A","p","p","l","i","c","a","t","i","o","n","_","N","u","m","b","e","r">>
PHOTO == <<"p","h","o","t","o">>
NAN == <<"n","a","n">>
PHOTOS == <<"p","h","o","t","o","s">>
OUTPUTS == <<"o","u","t","p","u","t","s">>
FILLED_FORM == <<"f","i","l","l","e","d","_","f","o","r","m","_">>
DOCX == <<".","d","o","c","x">>
JPG == <<"j","p","g">>
JPEG == <<"j","p","e","g">>
PNG == <<"p","n","g">>

\* for ext in ("jpg", "jpeg", "png")
EXTENSIONS == <<JPG, JPEG, PNG>>

\* for i in (1, 2, 3)
SLOTS == <<1, 2, 3>>

\* key = f"photo{i}"
PhotoKey(i) == PHOTO \o IntStr(i)

\* f"{key}.{ext}"
PhotoFile(key, ext) == key \o <<".">> \o ext

----------------------------------------------------------------------------
\* Paths and the file system.  A path string is a character sequence; a
\* location is the sequence of its components from the root directory.

\* path.split("/")
RECURSIVE SplitPath(_)
SplitPath(p) ==
  Let(p, LAMBDA s :
    IF \A i \in DOMAIN s : s[i] # "/" THEN <<s>>
    ELSE Let(CHOOSE i \in DOMAIN s : s[i] = "/" /\ \A j \in 1..(i - 1) : s[j] # "/",
             LAMBDA k : <<SubSeq(s, 1, k - 1)>>
                          \o SplitPath(SubSeq(s, k + 1, Len(s)))))

\* os.path.join(a, b) on POSIX
PathJoin(a, b) ==
  IF Len(b) > 0 /\ b[1] = "/" THEN b
  ELSE IF a = <<>> \/ a[Len(a)] = "/" THEN a \o b
  ELSE a \o <<"/">> \o b

Parent(loc) == IF loc = <<>> THEN <<>> ELSE SubSeq(loc, 1, Len(loc) - 1)

\* Kernel path walk from location cur over the components comps: every
\* component is looked up in a directory; "" and "." stay, ".." goes up.
RECURSIVE WalkFrom(_, _, _)
WalkFrom(cur, comps, D) ==
  IF comps = <<>> THEN [found |-> TRUE, loc |-> cur]
  ELSE IF cur \notin D THEN [found |-> FALSE, loc |-> cur]
  ELSE LET c == Head(comps)
       IN  IF c = <<>> \/ c = <<".">> THEN WalkFrom(cur, Tail(comps), D)
           ELSE IF c = <<".", ".">> THEN WalkFrom(Parent(cur), Tail(comps), D)
           ELSE WalkFrom(Append(cur, c), Tail(comps), D)

\* Location of an absolute path string
Locate(p, D) == Let(SplitPath(p), LAMBDA comps : WalkFrom(<<>>, comps, D))

\* os.path.isdir(p)
IsDir(p, D) == Let(Locate(p, D), LAMBDA at : at.found /\ at.loc \in D)

\* os.path.isfile(p)
IsFile(p, D, F) ==
  Let(Locate(p, D), LAMBDA at : at.found /\ \E f \in F : f.loc = at.loc)

\* The file at path p (p names a file)
FileAt(p, D, F) == Let(Locate(p, D), LAMBDA at : CHOOSE f \in F : f.loc = at.loc)

\* All prefixes of a location, the location excluded
Ancestors(loc) == {SubSeq(loc, 1, n) : n \in 0..(Len(loc) - 1)}

\* os.listdir(p): names of the files directly under directory p
ListDir(p, D, F) ==
  Let(Locate(p, D), LAMBDA at :
    {f.loc[Len(f.loc)] : f \in {g \in F : Parent(g.loc) = at.loc}})

----------------------------------------------------------------------------
\* Inputs: the uploaded spreadsheet and archive

StrCell(s) == [t |-> "str", s |-> s]
NumCell(n) == [t |-> "num", n |-> n]
NanCell == [t |-> "nan"]

StrCol(s) == [t |-> "str", s |-> s]
IntCol(n) == [t |-> "int", n |-> n]

\* str(value) of a cell value
Str(cell) ==
  CASE cell.t = "str" -> cell.s
    [] cell.t = "num" -> IntStr(cell.n)
    [] cell.t = "nan" -> NAN

\* Values of the Application_Number cell: "a", " a ", a blank string and an
\* empty cell (NaN)
KeyCells ==
  { StrCell(<<"a">>), StrCell(<<" ", "a", " ">>), StrCell(<<" ">>), NanCell }

\* Header rows: with the key column and photo-like columns; without the key
\* column (the name differs in case); with a numeric header cell.
KeyedHeader ==
  << StrCol(APPLICATION_NUMBER), StrCol(<<"N","a","m","e">>),
     StrCol(<<"P","h","o","t">>), StrCol(<<"P","h","o","t","o","1">>),
     StrCol(<<"p","h","o","t","o","2">>), StrCol(<<"P","H","O","T","O","x">>) >>
UnkeyedHeader ==
  << StrCol(Lower(APPLICATION_NUMBER)), StrCol(<<"N","a","m","e">>),
     StrCol(<<"p","h","o","t","o","4">>) >>
NumericHeader == << StrCol(<<"N","a","m","e">>), IntCol(7) >>

ColIndex(columns, c) == CHOOSE i \in DOMAIN columns : columns[i] = c

\* A sheet with the given header and one row per key cell; every other cell
\* holds a number that identifies its row and column.
Sheet(columns, keys) ==
  [ columns |-> columns,
    rows |-> [ k \in DOMAIN keys |->
                [ c \in Range(columns) |->
                    IF c = StrCol(APPLICATION_NUMBER) THEN keys[k]
                    ELSE NumCell(10 * k + ColIndex(columns, c)) ] ] ]

Sheets ==
  UNION { { Sheet(KeyedHeader, keys) : keys \in [1..n -> KeyCells] }
          \cup { Sheet(UnkeyedHeader, [k \in 1..n |-> NanCell]),
                 Sheet(NumericHeader, [k \in 1..n |-> NanCell]) }
        : n \in 0..MaxRows }

NoSheet == [columns |-> <<>>, rows |-> <<>>]

ExcelUploads ==
  { [present |-> FALSE, parsable |-> FALSE, sheet |-> NoSheet],
    [present |-> TRUE, parsable |-> FALSE, sheet |-> NoSheet] }
  \cup { [present |-> TRUE, parsable |-> TRUE, sheet |-> s] : s \in Sheets }

\* An archive member: its path inside the archive and whether PIL can decode it
Member(rel, image) == [rel |-> rel, image |-> image]

FolderA == <<"a">>

\* Archives: folder a/ with any of photo1.jpg (possibly undecodable),
\* photo1.jpeg, photo1.png, photo2.png, and photo1.jpg at the top level of
\* the archive.
Archives ==
  { ({Member(<<FolderA, PhotoFile(PhotoKey(1), JPG)>>, q) : q \in j1})
    \cup { Member(<<FolderA, PhotoFile(PhotoKey(m[1]), m[2])>>, "ok") : m \in rest }
    \cup { Member(<<PhotoFile(PhotoKey(1), JPG)>>, "ok") : x \in top }
    : j1 \in {{}, {"ok"}, {"bad"}},
      rest \in SUBSET {<<1, JPEG>>, <<1, PNG>>, <<2, PNG>>},
      top \in SUBSET {1} }

ZipUploads ==
  { [present |-> FALSE, valid |-> FALSE, members |-> {}],
    [present |-> TRUE, valid |-> FALSE, members |-> {}] }
  \cup { [present |-> TRUE, valid |-> TRUE, members |-> a] : a \in Archives }

----------------------------------------------------------------------------
\* State

VARIABLES
  excel_file,   \* st.file_uploader("Upload Excel file")
  photos_zip,   \* st.file_uploader("Upload photos ZIP")
  pc,           \* position of the script
  df,           \* the loaded DataFrame
  tmp_held,     \* the TemporaryDirectory exists
  dirs,         \* directories of the file system (locations)
  files,        \* regular files of the file system
  idx,          \* index label of the current row (0-based)
  slot,         \* position in SLOTS of the photo slot being filled
  context,      \* template context of the current row
  warnings,     \* st.warning calls so far
  errors,       \* st.error calls so far
  saved,        \* tpl.save calls so far (out_name of each)
  bundle,       \* entries written to zip_buffer
  download,     \* st.download_button was shown
  crash         \* the uncaught exception that ended the run, or "none"

vars == << excel_file, photos_zip, pc, df, tmp_held, dirs, files, idx, slot,
           context, warnings, errors, saved, bundle, download, crash >>

\* tempfile.TemporaryDirectory() path
TMPDIR == <<"/", "t">>
photos_dir == PathJoin(TMPDIR, PHOTOS)
outputs_dir == PathJoin(TMPDIR, OUTPUTS)

\* Location of a path string that has no ".", ".." or empty component
Loc(p) == SelectSeq(SplitPath(p), LAMBDA c : c # <<>>)

\* Locations of the three directories the script creates
tmp_loc == Loc(TMPDIR)
photos_loc == Loc(photos_dir)
outputs_loc == Loc(outputs_dir)

EmptyContext == [c \in {} |-> NanCell]

Init ==
  /\ excel_file \in ExcelUploads
  /\ photos_zip \in ZipUploads
  /\ pc = "start"
  /\ df = NoSheet
  /\ tmp_held = FALSE
  /\ dirs = {<<>>}
  /\ files = {}
  /\ idx = 0
  /\ slot = 1
  /\ context = EmptyContext
  /\ warnings = <<>>
  /\ errors = <<>>
  /\ saved = <<>>
  /\ bundle = <<>>
  /\ download = FALSE
  /\ crash = "none"

----------------------------------------------------------------------------
\* Per-row computations

\* Variant: the prefix test without lower()
IsPhotoColumnCaseSensitive(col) == StartsWith(col, PHOTO)

\* col.lower().startswith("photo")
IsPhotoColumn(col) == StartsWith(Lower(col), PHOTO)

\* {col: row[col] for col in df.columns if not col.lower().startswith("photo")}
BuildContext(columns, row) ==
  [ name \in { c.s : c \in { d \in Range(columns) : ~IsPhotoColumn(d.s) } }
      |-> row[StrCol(name)] ]

\* str(row.get("Application_Number", "")).strip()
AppNo(row) ==
  IF StrCol(APPLICATION_NUMBER) \in DOMAIN row
    THEN Strip(Str(row[StrCol(APPLICATION_NUMBER)]))
    ELSE Strip(<<>>)

\* app_folder = os.path.join(photos_dir, app_no)
AppFolder(app_no) == PathJoin(photos_dir, app_no)

Blank == [kind |-> "blank"]
InlineImage(img_path) == [kind |-> "image", img_path |-> img_path]
NoMatch == [matched |-> FALSE, img_path |-> <<>>]

\* Variant: the loop without its break, so the last match wins
SearchPhotoNoBreak(app_folder, key, k, D, F) ==
  Let({m \in k..Len(EXTENSIONS) :
         IsFile(PathJoin(app_folder, PhotoFile(key, EXTENSIONS[m])), D, F)},
      LAMBDA hits :
        IF hits = {} THEN NoMatch
        ELSE [matched |-> TRUE,
              img_path |->
                PathJoin(app_folder,
                         PhotoFile(key, EXTENSIONS[CHOOSE m \in hits :
                                                     \A n \in hits : n <= m]))])

\* for ext in ("jpg", "jpeg", "png"): the first img_path that is a file
RECURSIVE SearchPhoto(_, _, _, _, _)
SearchPhoto(app_folder, key, k, D, F) ==
  IF k > Len(EXTENSIONS) THEN NoMatch
  ELSE LET img_path == PathJoin(app_folder, PhotoFile(key, EXTENSIONS[k]))
       IN  IF IsFile(img_path, D, F)
             THEN [matched |-> TRUE, img_path |-> img_path]
             ELSE SearchPhoto(app_folder, key, k + 1, D, F)

\* if os.path.isdir(app_folder): search, else nothing
ResolvePhoto(app_folder, key, D, F) ==
  IF IsDir(app_folder, D) THEN SearchPhoto(app_folder, key, 1, D, F)
  ELSE NoMatch

\* Variant: "img_obj is None", which the default "" never satisfies
FalsyIsNone(img_obj) == img_obj.kind = "none"

\* not img_obj
Falsy(img_obj) == img_obj.kind = "blank"

\* Variant: a name without the row position
OutNameFixed(i) == FILLED_FORM \o DOCX

\* Variant: the 0-based index label in the name
OutNameZeroBased(i) == FILLED_FORM \o IntStr(i) \o DOCX

\* out_name = f"filled_form_{idx+1}.docx"
OutName(i) == FILLED_FORM \o IntStr(i + 1) \o DOCX

\* The row that df.iterrows() yields with index label i
Row(i) == df.rows[i + 1]

----------------------------------------------------------------------------
\* Leaving the "with tempfile.TemporaryDirectory()" block

Under(loc, top) == Len(loc) >= Len(top) /\ SubSeq(loc, 1, Len(top)) = top

\* Variant: a directory made without the with block is never removed
CleanupLeak == UNCHANGED << tmp_held, dirs, files >>

\* TemporaryDirectory.__exit__: the directory tree is removed
Cleanup ==
  /\ tmp_held' = FALSE
  /\ dirs' = {d \in dirs : ~Under(d, tmp_loc)}
  /\ files' = {f \in files : ~Under(f.loc, tmp_loc)}

\* An exception raised inside the with block: the block is left, the
\* exception is not caught and the script run ends.
Raise(exception) ==
  /\ crash' = exception
  /\ pc' = "crashed"
  /\ Cleanup

\* Variant: st.error without st.stop, the script goes on
ErrorNoStop(message) ==
  /\ errors' = Append(errors, message)
  /\ pc' = "mktemp"

\* st.error(...); st.stop()
ErrorStop(message) ==
  /\ errors' = Append(errors, message)
  /\ pc' = "stopped"

----------------------------------------------------------------------------
\* Steps of the script

\* if not excel_file or not photos_zip: st.error; st.stop
CheckInputs ==
  /\ pc = "start"
  /\ IF ~excel_file.present \/ ~photos_zip.present
       THEN ErrorStop("upload_both")
       ELSE pc' = "read_excel" /\ UNCHANGED errors
  /\ UNCHANGED << excel_file, photos_zip, df, tmp_held, dirs, files, idx, slot,
                  context, warnings, saved, bundle, download, crash >>

\* df = pd.read_excel(excel_file), or st.error; st.stop
ReadExcel ==
  /\ pc = "read_excel"
  /\ IF excel_file.parsable
       THEN df' = excel_file.sheet /\ pc' = "mktemp" /\ UNCHANGED errors
       ELSE ErrorStop("read_failed") /\ UNCHANGED df
  /\ UNCHANGED << excel_file, photos_zip, tmp_held, dirs, files, idx, slot,
                  context, warnings, saved, bundle, download, crash >>

\* with tempfile.TemporaryDirectory() as tmpdir; makedirs photos, outputs
MakeTempDirs ==
  /\ pc = "mktemp"
  /\ tmp_held' = TRUE
  /\ dirs' = dirs \cup {tmp_loc, photos_loc, outputs_loc}
  /\ pc' = "unzip"
  /\ UNCHANGED << excel_file, photos_zip, df, files, idx, slot, context,
                  warnings, errors, saved, bundle, download, crash >>

\* Files and directories that z.extractall(photos_dir) creates
Extracted(members) ==
  [ files |-> { [loc |-> photos_loc \o m.rel, image |-> m.image,
                   doc |-> EmptyContext] : m \in members },
    dirs |-> UNION { { photos_loc \o a : a \in Ancestors(m.rel) } :
                     m \in members } ]

\* with zipfile.ZipFile(photos_zip) as z: z.extractall(photos_dir)
ExtractAll ==
  /\ pc = "unzip"
  /\ IF photos_zip.valid
       THEN /\ files' = files \cup Extracted(photos_zip.members).files
            /\ dirs' = dirs \cup Extracted(photos_zip.members).dirs
            /\ idx' = 0
            /\ pc' = "loop"
            /\ UNCHANGED << tmp_held, crash >>
       ELSE Raise("BadZipFile") /\ UNCHANGED idx
  /\ UNCHANGED << excel_file, photos_zip, df, slot, context, warnings, errors,
                  saved, bundle, download >>

\* for idx, row in df.iterrows(): tpl = DocxTemplate(...); context = {...}
BeginRow ==
  /\ pc = "loop"
  /\ idx < Len(df.rows)
  /\ IF \A c \in Range(df.columns) : c.t = "str"
       THEN /\ context' = BuildContext(df.columns, Row(idx))
            /\ slot' = 1
            /\ pc' = "photo"
            /\ UNCHANGED << tmp_held, dirs, files, crash >>
       ELSE Raise("AttributeError") /\ UNCHANGED << context, slot >>
  /\ UNCHANGED << excel_file, photos_zip, df, idx, warnings, errors, saved,
                  bundle, download >>

\* with PILImage.open(img_path) as im: raises on an undecodable file
Opens(found, D, F) ==
  IF found.matched THEN FileAt(found.img_path, D, F).image # "bad" ELSE TRUE

\* One pass of "for i in (1, 2, 3)": search, open, InlineImage, warning
PhotoSlot ==
  /\ pc = "photo"
  /\ \E key \in {PhotoKey(SLOTS[slot])} :
     \E app_no \in {AppNo(Row(idx))} :
     \E found \in {ResolvePhoto(AppFolder(app_no), key, dirs, files)} :
     \E img_obj \in {IF found.matched THEN InlineImage(found.img_path)
                     ELSE Blank} :
       IF Opens(found, dirs, files)
         THEN /\ warnings' =
                   IF Falsy(img_obj)
                     THEN Append(warnings,
                                 [row |-> idx, key |-> key, app_no |-> app_no])
                     ELSE warnings
              /\ context' = (key :> img_obj) @@ context
              /\ slot' = IF slot < Len(SLOTS) THEN slot + 1 ELSE slot
              /\ pc' = IF slot < Len(SLOTS) THEN "photo" ELSE "render"
              /\ UNCHANGED << tmp_held, dirs, files, crash >>
         ELSE /\ Raise("UnidentifiedImageError")
              /\ UNCHANGED << context, warnings, slot >>
  /\ UNCHANGED << excel_file, photos_zip, df, idx, errors, saved, bundle,
                  download >>

\* Variant: a failed render is caught and the loop goes on to the next row
RenderIsolated ==
  /\ pc = "render"
  /\ \/ LET out_name == OutName(idx)
            out_path == PathJoin(outputs_dir, out_name)
        IN  /\ files' = {f \in files : f.loc # Loc(out_path)}
                        \cup {[loc |-> Loc(out_path), image |-> "none",
                               doc |-> context]}
            /\ saved' = Append(saved, out_name)
            /\ crash' = crash
     \/ /\ crash' = "RenderError"
        /\ UNCHANGED << files, saved >>
  /\ idx' = idx + 1
  /\ pc' = "loop"
  /\ UNCHANGED << excel_file, photos_zip, df, tmp_held, dirs, slot, context,
                  warnings, errors, bundle, download >>

\* tpl.render(context); tpl.save(out_path): the template library may raise
Render ==
  /\ pc = "render"
  /\ \/ LET out_name == OutName(idx)
            out_path == PathJoin(outputs_dir, out_name)
        IN  /\ files' = {f \in files : f.loc # Loc(out_path)}
                        \cup {[loc |-> Loc(out_path), image |-> "none",
                               doc |-> context]}
            /\ saved' = Append(saved, out_name)
            /\ idx' = idx + 1
            /\ pc' = "loop"
            /\ UNCHANGED << tmp_held, dirs, crash >>
     \/ Raise("RenderError") /\ UNCHANGED << saved, idx >>
  /\ UNCHANGED << excel_file, photos_zip, df, slot, context, warnings, errors,
                  bundle, download >>

\* zipf.write(file_path, arcname=fname) for fname in sorted(os.listdir(...))
ZipEntries ==
  Let(SortedNames(ListDir(outputs_dir, dirs, files)), LAMBDA names :
    [ i \in DOMAIN names |->
        [ arcname |-> names[i],
          doc |-> FileAt(PathJoin(outputs_dir, names[i]), dirs, files).doc ] ])

\* After the loop: zip the outputs, st.download_button, leave the with block
Package ==
  /\ pc = "loop"
  /\ idx >= Len(df.rows)
  /\ bundle' = ZipEntries
  /\ download' = TRUE
  /\ Cleanup
  /\ pc' = "done"
  /\ UNCHANGED << excel_file, photos_zip, df, idx, slot, context, warnings,
                  errors, saved, crash >>

Next ==
  \/ CheckInputs
  \/ ReadExcel
  \/ MakeTempDirs
  \/ ExtractAll
  \/ BeginRow
  \/ PhotoSlot
  \/ Render
  \/ Package

Spec == Init /\ [][Next]_vars

\* The script is sequential and runs to its end: every enabled step is taken.
FairSpec == Spec /\ WF_vars(Next)

----------------------------------------------------------------------------
\* Vocabulary of the properties

Rows == 0..(Len(df.rows) - 1)

\* "filled_form_k.docx" for a one-digit k, spelled out
ExpectedName(k) == FILLED_FORM \o <<DIGIT[k + 1]>> \o DOCX

\* The file system right after extraction, as the uploads determine it
Archive ==
  [ dirs |-> {<<>>, tmp_loc, photos_loc, outputs_loc}
               \cup Extracted(photos_zip.members).dirs,
    files |-> { f.loc : f \in Extracted(photos_zip.members).files } ]

\* Location of the folder that row r's key designates in file system fs
FolderOf(fs, r) == Locate(AppFolder(AppNo(Row(r))), fs.dirs)
IsFolder(fs, at) == at.found /\ at.loc \in fs.dirs
HasFolder(fs, r) == IsFolder(fs, FolderOf(fs, r))

\* The claimed order of preference
Preference == <<JPG, JPEG, PNG>>

\* The folder at location at holds photo{i}.{ext}
HasAt(fs, at, i, ext) ==
  /\ IsFolder(fs, at)
  /\ Append(at.loc, PhotoFile(PhotoKey(i), ext)) \in fs.files
Has(fs, r, i, ext) == HasAt(fs, FolderOf(fs, r), i, ext)

\* The preferred candidate present for slot i in the folder, if any (as a
\* set of at most one position of Preference)
Preferred(fs, at, i) ==
  Let({k \in DOMAIN Preference : HasAt(fs, at, i, Preference[k])},
      LAMBDA present : {k \in present : \A m \in present : k <= m})
Unresolved(fs, r, i) == Preferred(fs, FolderOf(fs, r), i) = {}

\* The loop has finished the pass for row r and slot position j
Processed(r, j) ==
  /\ pc \in {"loop", "photo", "render", "done", "crashed"}
  /\ \/ r < idx
     \/ /\ r = idx
        /\ \/ pc = "render"
           \/ crash = "RenderError"
           \/ (pc = "photo" \/ crash = "UnidentifiedImageError") /\ j < slot

\* The document generated for row r, while it can be observed
HasDoc(r) ==
  IF pc = "done"
    THEN \E e \in Range(bundle) : e.arcname = ExpectedName(r + 1)
    ELSE \E f \in files : f.loc = Append(outputs_loc, ExpectedName(r + 1))
DocOf(r) ==
  IF pc = "done"
    THEN (CHOOSE e \in Range(bundle) : e.arcname = ExpectedName(r + 1)).doc
    ELSE (CHOOSE f \in files :
            f.loc = Append(outputs_loc, ExpectedName(r + 1))).doc

\* The value passed to the template for row r, slot i (pc is not "crashed")
SlotValue(r, i) ==
  IF r = idx /\ pc \in {"photo", "render"} THEN context[PhotoKey(i)]
  ELSE DocOf(r)[PhotoKey(i)]

WarnCount(r, i) ==
  Cardinality({n \in DOMAIN warnings :
                 warnings[n].row = r /\ warnings[n].key = PhotoKey(i)})

\* A document was rendered from row r: it carries the row's Name cell
NameCol == StrCol(<<"N","a","m","e">>)
FromRow(doc, r) ==
  /\ NameCol.s \in DOMAIN doc
  /\ doc[NameCol.s] = Row(r)[NameCol]

----------------------------------------------------------------------------
\* Properties

\* C1: a run that completes offers a bundle with exactly one document per
\* data row: as many entries as rows, distinct names, every row's document
\* present (none skipped, none overwritten).
C1_OneDocumentPerRecord ==
  pc = "done" =>
    /\ download
    /\ Len(bundle) = Len(df.rows)
    /\ \A m, n \in DOMAIN bundle :
         m # n => bundle[m].arcname # bundle[n].arcname
    /\ \A r \in Rows : \E n \in DOMAIN bundle : FromRow(bundle[n].doc, r)

C1_Witness ==
  /\ pc = "done"
  /\ Len(df.rows) >= 2
  /\ Len(bundle) >= 2
  /\ photos_zip.members # {}

\* C8: the row at 1-based position k is saved as filled_form_k.docx: every
\* tpl.save so far used the name of its position, and a completed run's
\* bundle holds exactly the names filled_form_1..filled_form_R, each on the
\* document of that row.
C8_NamedByPosition ==
  /\ \A k \in DOMAIN saved : saved[k] = ExpectedName(k)
  /\ pc = "done" =>
       /\ {bundle[n].arcname : n \in DOMAIN bundle}
            = {ExpectedName(k) : k \in 1..Len(df.rows)}
       /\ \A n \in DOMAIN bundle :
            \A r \in Rows :
              bundle[n].arcname = ExpectedName(r + 1)
                => FromRow(bundle[n].doc, r)

C8_Witness ==
  /\ pc = "done"
  /\ Len(saved) >= 2
  /\ bundle[2].arcname = ExpectedName(2)
  /\ FromRow(bundle[2].doc, 1)

ChosenAt(fs, at, v, i, ext) ==
  /\ v.kind = "image"
  /\ Locate(v.img_path, fs.dirs).loc
       = Append(at.loc, PhotoFile(PhotoKey(i), ext))
\* C2: for every processed slot, the value passed is the image at the first
\* of photoN.jpg, photoN.jpeg, photoN.png that the row's folder holds, and
\* it is blank only when the folder holds none of the three.
C2_PreferenceOrder ==
  pc \in {"loop", "photo", "render", "done"} =>
    LET fs == Archive
    IN  \A r \in Rows :
          r <= idx =>
            Let(FolderOf(fs, r), LAMBDA at :
              \A j \in DOMAIN SLOTS :
                Processed(r, j) =>
                  Let(SlotValue(r, SLOTS[j]), LAMBDA v :
                    Let(Preferred(fs, at, SLOTS[j]), LAMBDA first :
                      IF first = {} THEN v.kind = "blank"
                      ELSE \A k \in first :
                             ChosenAt(fs, at, v, SLOTS[j], Preference[k]))))

C2_Witness ==
  /\ pc = "render"
  /\ ~Has(Archive, idx, 1, JPG)
  /\ Has(Archive, idx, 1, JPEG)
  /\ Has(Archive, idx, 1, PNG)
  /\ ChosenAt(Archive, FolderOf(Archive, idx), context[PhotoKey(1)], 1, JPEG)

TrimmedKey(r) ==
  IF StrCol(APPLICATION_NUMBER) \in DOMAIN Row(r)
    THEN Strip(Str(Row(r)[StrCol(APPLICATION_NUMBER)]))
    ELSE <<>>
BadInputs ==
  ~excel_file.present \/ ~photos_zip.present \/ ~excel_file.parsable
\* C4: with an upload absent or an unparsable spreadsheet the run reports an
\* error and halts before any processing: it never gets past the Excel load,
\* holds no temporary directory, extracts nothing, warns of nothing, saves
\* nothing and offers no bundle.
C4_HaltBeforeProcessing ==
  /\ BadInputs =>
       /\ pc \in {"start", "read_excel", "stopped"}
       /\ ~tmp_held
       /\ dirs = {<<>>}
       /\ files = {}
       /\ warnings = <<>>
       /\ saved = <<>>
       /\ bundle = <<>>
       /\ ~download
       /\ crash = "none"
  /\ pc = "stopped" => BadInputs /\ Len(errors) = 1

C4_Witness ==
  /\ pc = "stopped"
  /\ excel_file.present /\ photos_zip.present /\ ~excel_file.parsable
  /\ errors = <<"read_failed">>

C5_RenderFailureState ==
  crash = "RenderError" =>
    /\ pc = "crashed"
    /\ idx < Len(df.rows)
    /\ saved = [k \in 1..idx |-> ExpectedName(k)]
    /\ \A n \in DOMAIN warnings : warnings[n].row <= idx
    /\ bundle = <<>>
    /\ ~download
\* C5: a render failure at row k ends the run there: the rows before k were
\* saved, nothing of a later row happened, no bundle is offered, and no step
\* follows the failure.
C5_RenderFailureAborts ==
  /\ []C5_RenderFailureState
  /\ [][crash # "RenderError"]_vars

\* The render of the second row fails after the first document was saved
C5_Witness ==
  /\ crash = "RenderError"
  /\ idx = 1
  /\ saved = <<ExpectedName(1)>>
  /\ ~download

PhotoPrefixed(name) ==
  /\ Len(name) >= 5
  /\ name[1] \in {"p", "P"}
  /\ name[2] \in {"h", "H"}
  /\ name[3] \in {"o", "O"}
  /\ name[4] \in {"t", "T"}
  /\ name[5] \in {"o", "O"}
SlotKeys ==
  { <<"p","h","o","t","o","1">>, <<"p","h","o","t","o","2">>,
    <<"p","h","o","t","o","3">> }
ContextOf(ctx, r) ==
  LET passed == {c \in Range(df.columns) : ~PhotoPrefixed(c.s)}
  IN  /\ DOMAIN ctx = {c.s : c \in passed} \cup SlotKeys
      /\ \A c \in passed : ctx[c.s] = Row(r)[c]
      /\ \A k \in SlotKeys : ctx[k].kind \in {"image", "blank"}
\* C7: the context handed to the template has exactly the columns whose
\* name does not start with "photo" in any letter case, each with the row's
\* own cell, plus photo1, photo2, photo3, each an image or blank.
C7_ContextKeys ==
  /\ pc = "render" => ContextOf(context, idx)
  /\ pc \in {"loop", "photo", "render", "done"} =>
       \A r \in Rows : r < idx => ContextOf(DocOf(r), r)

C7_Witness ==
  /\ pc = "render"
  /\ df.columns = KeyedHeader
  /\ context[<<"p","h","o","t","o","2">>].kind = "image"
  /\ <<"P","h","o","t","o","1">> \notin DOMAIN context
  /\ <<"P","h","o","t">> \in DOMAIN context

Ended == pc \in {"done", "stopped", "crashed"}
TmpGone ==
  /\ ~tmp_held
  /\ \A d \in dirs : ~Under(d, tmp_loc)
  /\ \A f \in files : ~Under(f.loc, tmp_loc)
\* C9: every run that acquired the temporary directory releases it: no ended
\* run holds it or leaves anything under it, and once held it is eventually
\* released.
C9_TmpReleased ==
  /\ [](Ended => TmpGone)
  /\ (tmp_held ~> ~tmp_held)

C9_Witness ==
  /\ pc = "crashed"
  /\ crash = "UnidentifiedImageError"
  /\ Len(saved) >= 1
  /\ TmpGone

\* C6: a slot is resolved only from the folder named by the row's trimmed
\* Application_Number; without the column, or with an empty key, every slot
\* is blank.
C6_OnlyFromKeyFolder ==
  pc \in {"photo", "render"} =>
    \A j \in DOMAIN SLOTS :
      (Processed(idx, j) /\ context[PhotoKey(SLOTS[j])].kind = "image") =>
        /\ StrCol(APPLICATION_NUMBER) \in Range(df.columns)
        /\ TrimmedKey(idx) # <<>>
        /\ Parent(Locate(context[PhotoKey(SLOTS[j])].img_path, dirs).loc)
             = Append(photos_loc, TrimmedKey(idx))

FirstMatchBad(r, i) ==
  \E k \in Preferred(Archive, FolderOf(Archive, r), i) :
    \E f \in Extracted(photos_zip.members).files :
      /\ f.loc = Append(FolderOf(Archive, r).loc,
                        PhotoFile(PhotoKey(i), Preference[k]))
      /\ f.image = "bad"
\* C10: an undecodable matched image does not end the run: unless the
\* archive, a header or the template failed, the ended run offers the
\* bundle, with the document of every row whose matched images decode.
C10_ImageFailureIsolated ==
  (pc \in {"done", "crashed"}
     /\ crash \notin {"BadZipFile", "AttributeError", "RenderError"}) =>
    /\ download
    /\ \A r \in Rows :
         (\A i \in Range(SLOTS) : ~FirstMatchBad(r, i))
           => \E n \in DOMAIN bundle : FromRow(bundle[n].doc, r)

====
